---- MODULE Spec2Model ----
(***************************************************************************)
(* Registration quality control of fMRIPrep derivatives                    *)
(* (scripts/utils.py, scripts/fp_derivs_check.py,                          *)
(* scripts/full_derivs_check.py).                                          *)
(*                                                                         *)
(* Volumes are functions from the voxels 1..n of one common grid to        *)
(* integer intensities.  Intensities are counted in units of 1e10, so that *)
(* the extreme-value test |v| > 1e10 reads |v| > ExtremeThreshold.         *)
(* Floats are IEEE 754 doubles: [k |-> "num", m, e] is the value m * 2^e   *)
(* with 2^52 <= m < 2^53 (or m = 0, e = 0), and "inf" and "nan" are the    *)
(* two non-finite values the program produces.  No negative float occurs.  *)
(* Natural numbers too wide for one machine integer are lists of limbs in  *)
(* base 2^13, least significant limb first, without leading zero limbs.    *)
(* A path is the string of its file name.                                  *)
(***************************************************************************)
EXTENDS Integers, Sequences, FiniteSets, TLC

\* ------------------------------------------------------------------ bounds
NVox == 2
RatioVox == 3
MaxNodes == 1
MaxMasks == 2
MaxRows == 2

\* --------------------------------------------------------------- constants
ExtremeThreshold == 1
DiceThreshNum == 80
DiceThreshDen == 100
VoxOutThresh == 20
NumVoxThresh == 0
ExtLen == 7
Hundred == 100
LimbBits == 13
MantBits == 53

None == "None"
Voxels == 1 .. NVox
VoxelValues == {-2, 0, 1, 2}
Volumes == [Voxels -> VoxelValues]
BinaryVolumes == [Voxels -> {0, 1}]

\* ------------------------------------------------------------ wide naturals
RECURSIVE Pow2(_)
Pow2(n) == IF n = 0 THEN 1 ELSE 2 * Pow2(n - 1)
Base == Pow2(LimbBits)

RECURSIVE BigTrim(_)
BigTrim(a) ==
    IF a = <<>> THEN a
    ELSE IF a[Len(a)] = 0 THEN BigTrim(SubSeq(a, 1, Len(a) - 1)) ELSE a

RECURSIVE BigFromNat(_)
BigFromNat(n) == IF n = 0 THEN <<>> ELSE <<n % Base>> \o BigFromNat(n \div Base)

Limb(a) == IF a = <<>> THEN 0 ELSE Head(a)
Rest(a) == IF a = <<>> THEN a ELSE Tail(a)

RECURSIVE BigAddCarry(_, _, _)
BigAddCarry(a, b, c) ==
    IF a = <<>> /\ b = <<>> THEN (IF c = 0 THEN <<>> ELSE <<c>>)
    ELSE <<(Limb(a) + Limb(b) + c) % Base>>
         \o BigAddCarry(Rest(a), Rest(b), (Limb(a) + Limb(b) + c) \div Base)
BigAdd(a, b) == BigAddCarry(a, b, 0)

\* a - b for a >= b
RECURSIVE BigSubBorrow(_, _, _)
BigSubBorrow(a, b, c) ==
    IF a = <<>> THEN <<>>
    ELSE <<(Head(a) - Limb(b) - c + Base) % Base>>
         \o BigSubBorrow(Tail(a), Rest(b), IF Head(a) - Limb(b) - c < 0 THEN 1 ELSE 0)
BigSub(a, b) == BigTrim(BigSubBorrow(a, b, 0))

\* a * k for 0 <= k < Base
RECURSIVE BigMulCarry(_, _, _)
BigMulCarry(a, k, c) ==
    IF a = <<>> THEN (IF c = 0 THEN <<>> ELSE <<c>>)
    ELSE <<(Head(a) * k + c) % Base>>
         \o BigMulCarry(Tail(a), k, (Head(a) * k + c) \div Base)
BigMulSmall(a, k) == BigTrim(BigMulCarry(a, k, 0))

\* a * Base
ShiftLimb(a) == IF a = <<>> THEN a ELSE <<0>> \o a

RECURSIVE BigMul(_, _)
BigMul(a, b) ==
    IF b = <<>> THEN <<>>
    ELSE BigAdd(BigMulSmall(a, Head(b)), ShiftLimb(BigMul(a, Tail(b))))

RECURSIVE BigLessFrom(_, _, _)
BigLessFrom(a, b, k) ==
    IF k = 0 THEN FALSE
    ELSE IF a[k] # b[k] THEN a[k] < b[k] ELSE BigLessFrom(a, b, k - 1)
BigLess(a, b) ==
    IF Len(a) # Len(b) THEN Len(a) < Len(b) ELSE BigLessFrom(a, b, Len(a))

RECURSIVE BitLenSmall(_)
BitLenSmall(n) == IF n = 0 THEN 0 ELSE 1 + BitLenSmall(n \div 2)
BitLen(a) ==
    IF a = <<>> THEN 0 ELSE LimbBits * (Len(a) - 1) + BitLenSmall(a[Len(a)])

RECURSIVE Zeros(_)
Zeros(n) == IF n = 0 THEN <<>> ELSE <<0>> \o Zeros(n - 1)

\* a * 2^k
ShiftLeft(a, k) ==
    IF a = <<>> THEN a
    ELSE Zeros(k \div LimbBits) \o BigMulSmall(a, Pow2(k % LimbBits))

LimbAt(a, k) == IF k <= Len(a) THEN a[k] ELSE 0

\* One digit of a long division in base Base: the largest k with d * k <= r,
\* for r < d * Base and a divisor d whose top limb is at least Base / 2.  The
\* guess made from the leading limbs is never too small, and at most 2 too
\* large.
Guess(r, d) ==
    (LimbAt(r, Len(d) + 1) * Base + LimbAt(r, Len(d))) \div d[Len(d)]
RECURSIVE DigitFrom(_, _, _)
DigitFrom(r, d, k) ==
    IF BigLess(r, BigMulSmall(d, k)) THEN DigitFrom(r, d, k - 1) ELSE k
Digit(r, d) ==
    DigitFrom(r, d, IF Guess(r, d) < Base THEN Guess(r, d) ELSE Base - 1)

\* Long division: n more digits of q, for r < d; <<q, what is left>>.
RECURSIVE BigDivDigits(_, _, _, _)
BigDivDigits(r, d, n, q) ==
    IF n = 0 THEN <<q, r>>
    ELSE LET k == Digit(ShiftLimb(r), d)
         IN  BigDivDigits(BigSub(ShiftLimb(r), BigMulSmall(d, k)), d, n - 1,
                          <<k>> \o q)

\* ----------------------------------------------------------------- doubles
Double(m, e) == [k |-> "num", m |-> m, e |-> e]
Zero == Double(<<>>, 0)
Inf == [k |-> "inf", m |-> <<>>, e |-> 0]
NaN == [k |-> "nan", m |-> <<>>, e |-> 0]
IsFinite(x) == x.k = "num"
MinMantissa == ShiftLeft(<<1>>, MantBits - 1)
\* a mantissa is one bit and MantLimbs whole limbs
MantLimbs == (MantBits - 1) \div LimbBits
HalfBase == Base \div 2

\* Round to nearest, ties to even.  q is the mantissa followed by one more
\* limb (its lowest), r what the division left: the mantissa is rounded up
\* when the rest is more than half a unit of its last bit, or exactly half
\* and the mantissa is odd.
RoundUp(q, r) ==
    /\ q[1] >= HalfBase
    /\ (q[1] > HalfBase \/ r # <<>> \/ q[2] % 2 = 1)
Nearest(q, r, e) ==
    IF ~RoundUp(q, r) THEN Double(Tail(q), e)
    ELSE IF BitLen(BigAdd(Tail(q), <<1>>)) > MantBits THEN Double(MinMantissa, e + 1)
    ELSE Double(BigAdd(Tail(q), <<1>>), e)
NearestOf(qr, e) == Nearest(qr[1], qr[2], e)

\* The double nearest to (N / D) * 2^e, for D <= N < 2D; Divide wants the
\* top limb of D to be at least Base / 2, Quotient scales N and D to that.
Divide(N, D, e) ==
    NearestOf(BigDivDigits(BigSub(N, D), D, MantLimbs + 1, <<1>>),
              e - (MantBits - 1))
Slack(D) == LimbBits - BitLenSmall(D[Len(D)])
Quotient(N, D, e) == Divide(ShiftLeft(N, Slack(D)), ShiftLeft(D, Slack(D)), e)

\* The double nearest to M * 2^e
RoundToDouble(M, e) ==
    IF M = <<>> THEN Zero
    ELSE Quotient(M, ShiftLeft(<<1>>, BitLen(M) - 1), e + BitLen(M) - 1)

\* float(n) for an int n >= 0
FromInt(n) == RoundToDouble(BigFromNat(n), 0)

\* x / y for finite x and finite y # 0 (Python raises on y = 0; every
\* division of the program is guarded against it).
FDiv(x, y) ==
    IF x.m = <<>> THEN Zero
    ELSE IF BigLess(x.m, y.m) THEN Quotient(BigAdd(x.m, x.m), y.m, x.e - y.e - 1)
    ELSE Quotient(x.m, y.m, x.e - y.e)

\* x * y for finite x, y
FMul(x, y) == RoundToDouble(BigMul(x.m, y.m), x.e + y.e)

\* x + y for finite x, y
FAdd(x, y) ==
    IF x.m = <<>> THEN y
    ELSE IF y.m = <<>> THEN x
    ELSE IF x.e < y.e
    THEN RoundToDouble(BigAdd(x.m, ShiftLeft(y.m, y.e - x.e)), x.e)
    ELSE RoundToDouble(BigAdd(ShiftLeft(x.m, x.e - y.e), y.m), y.e)

\* IEEE comparisons: every comparison with NaN is false.
FLess(x, y) ==
    /\ x.k # "nan" /\ y.k # "nan"
    /\ IF IsFinite(x) /\ IsFinite(y)
       THEN IF y.m = <<>> THEN FALSE
            ELSE IF x.m = <<>> THEN TRUE
            ELSE x.e < y.e \/ (x.e = y.e /\ BigLess(x.m, y.m))
       ELSE IsFinite(x) /\ y = Inf
FGreater(x, y) == FLess(y, x)

Abs(v) == IF v < 0 THEN -v ELSE v
\* -------------------------------------------------------- metric primitives
\* np.count_nonzero(img_data[sel])
count_nonzero(img, sel) == Cardinality({v \in DOMAIN img : sel[v] /\ img[v] # 0})

\* Mutant: the outside count taken with the mask itself (the `~` forgotten).
voxel_inout_ratio_SameMask(img, mask) ==
    LET mask_data == [v \in DOMAIN mask |-> mask[v] > 0]
        nonzero_inside == count_nonzero(img, mask_data)
        nonzero_outside == count_nonzero(img, mask_data)
        total_nonzero == nonzero_inside + nonzero_outside
        percent_inside ==
            IF total_nonzero # 0
            THEN FMul(FDiv(FromInt(nonzero_inside), FromInt(total_nonzero)),
                      FromInt(Hundred))
            ELSE FromInt(0)
        percent_outside ==
            IF total_nonzero # 0
            THEN FMul(FDiv(FromInt(nonzero_outside), FromInt(total_nonzero)),
                      FromInt(Hundred))
            ELSE FromInt(0)
        ratio_invout == IF percent_outside # Zero
                        THEN FDiv(percent_inside, percent_outside) ELSE Inf
    IN  <<percent_inside, percent_outside, ratio_invout>>

voxel_inout_ratio(img, mask) ==
    LET mask_data == [v \in DOMAIN mask |-> mask[v] > 0]
        nonzero_inside == count_nonzero(img, mask_data)
        nonzero_outside == count_nonzero(img, [v \in DOMAIN mask |-> ~mask_data[v]])
        total_nonzero == nonzero_inside + nonzero_outside
        percent_inside ==
            IF total_nonzero # 0
            THEN FMul(FDiv(FromInt(nonzero_inside), FromInt(total_nonzero)),
                      FromInt(Hundred))
            ELSE FromInt(0)
        percent_outside ==
            IF total_nonzero # 0
            THEN FMul(FDiv(FromInt(nonzero_outside), FromInt(total_nonzero)),
                      FromInt(Hundred))
            ELSE FromInt(0)
        ratio_invout == IF percent_outside # Zero
                        THEN FDiv(percent_inside, percent_outside) ELSE Inf
    IN  <<percent_inside, percent_outside, ratio_invout>>

\* similarity.image_similarity(..., similarity_type='dice') of the external
\* pyrelimri package: both images are binarised (non-zero voxels) and
\* dice = 2|A n B| / (|A| + |B|); 0/0 is the float NaN.
image_similarity_dice(img1, img2) ==
    LET A == {v \in DOMAIN img1 : img1[v] # 0}
        B == {v \in DOMAIN img2 : img2[v] # 0}
    IN  IF Cardinality(A) + Cardinality(B) = 0 THEN NaN
        ELSE FDiv(FromInt(2 * Cardinality(A \cap B)),
                  FromInt(Cardinality(A) + Cardinality(B)))

\* np.sum(np.abs(out_data) > 1e10)
extreme_voxel_count(img) ==
    Cardinality({v \in DOMAIN img : Abs(img[v]) > ExtremeThreshold})

\* ------------------------------------------------------------ files, names
\* A run key: the BIDS entities of one functional run; None marks an entity
\* the study does not use.
EntityKeys == <<"subject", "session", "task", "run">>

NiiGz == ".nii.gz"
\* name[:-7]: the name without its last seven characters, whatever they are
StripExt(name) ==
    IF Len(name) <= ExtLen THEN "" ELSE SubSeq(name, 1, Len(name) - ExtLen)

\* The store's name of a run's file: sub-<>[_ses-<>]_task-<>[_run-<>]<tail>.
BidsBase(e, tail) ==
    "sub-" \o e.subject
    \o (IF e.session # None THEN "_ses-" \o e.session ELSE "")
    \o "_task-" \o e.task
    \o (IF e.run # None THEN "_run-" \o e.run ELSE "")
    \o tail
StoreFile(e, tail, ext) == BidsBase(e, tail) \o ext

\* bids.layout.parse_file_entities: each entity is found by its pattern in
\* the path, "/sub-<value>" for the subject and "_<tag>-<value>" (or
\* "/<tag>-<value>") for session, task and run; a value is the longest run of
\* letters, digits and "+" after the tag.  The path ends in "/" and the name.
EntityTags == [subject |-> <<"/sub-">>,
               session |-> <<"_ses-", "/ses-">>,
               task |-> <<"_task-", "/task-">>,
               run |-> <<"_run-", "/run-">>]
ValueDelimiters == {"_", "-", ".", "/"}

RECURSIVE IndexOf(_, _, _)
IndexOf(s, pat, k) ==
    IF k + Len(pat) - 1 > Len(s) THEN 0
    ELSE IF SubSeq(s, k, k + Len(pat) - 1) = pat THEN k
    ELSE IndexOf(s, pat, k + 1)

RECURSIVE ValueEnd(_, _)
ValueEnd(s, k) ==
    IF k > Len(s) THEN k - 1
    ELSE IF SubSeq(s, k, k) \in ValueDelimiters THEN k - 1
    ELSE ValueEnd(s, k + 1)

\* <<value>> of the first match of one of the tags, <<>> without a match
RECURSIVE EntityValue(_, _)
EntityValue(s, tags) ==
    IF tags = <<>> THEN <<>>
    ELSE LET p == IndexOf(s, Head(tags), 1)
             from == p + Len(Head(tags))
             to == ValueEnd(s, from)
             rest == EntityValue(s, Tail(tags))
         IN  IF p # 0 /\ to >= from
                /\ (rest = <<>> \/ p <= IndexOf(s, Head(Tail(tags)), 1))
             THEN <<SubSeq(s, from, to)>>
             ELSE rest

parse_file_entities(name) ==
    LET found == [k \in DOMAIN EntityTags |-> EntityValue("/" \o name, EntityTags[k])]
    IN  [k \in {k \in DOMAIN EntityTags : found[k] # <<>>} |-> found[k][1]]

RECURSIVE JoinWith(_, _)
JoinWith(sep, parts) ==
    IF parts = <<>> THEN ""
    ELSE IF Len(parts) = 1 THEN parts[1]
    ELSE parts[1] \o sep \o JoinWith(sep, Tail(parts))

RECURSIVE EntityParts(_, _)
EntityParts(parsed_dat, keys) ==
    IF keys = <<>> THEN <<>>
    ELSE (IF Head(keys) \in DOMAIN parsed_dat
          THEN <<Head(keys) \o "-" \o parsed_dat[Head(keys)]>> ELSE <<>>)
         \o EntityParts(parsed_dat, Tail(keys))

\* Mutant: the tags joined in the order subject, task, session, run.
sub_run_info_TaskFirst(img_path) ==
    JoinWith("_", EntityParts(parse_file_entities(img_path),
                              <<"subject", "task", "session", "run">>))

sub_run_info(img_path) ==
    JoinWith("_", EntityParts(parse_file_entities(img_path), EntityKeys))

\* img is [path, data]: a file and the volume load_img reads from it.
similarity_boldtarget_metrics(img, brainmask, n_extreme_voxels) ==
    LET io == voxel_inout_ratio(img.data, brainmask)
    IN  [img1 |-> sub_run_info(img.path),
         img1name |-> img.path,
         img2 |-> "mni152",
         dice |-> image_similarity_dice(img.data, brainmask),
         voxinmask |-> io[1],
         voxoutmask |-> io[2],
         ratio_inoutmask |-> io[3],
         numvox_grtr_1e10 |-> n_extreme_voxels]

\* ------------------------------------------------- spatial transform executor
\* The environment of one call: whether mkdir raises, and what subprocess.run
\* does ("raise", or the exit status of antsApplyTransforms).
MkdirOutcomes == {"ok", "raise"}
SubprocessOutcomes == {"raise", "rc0", "rc1"}

\* Mutant: the exit status of the tool is not looked at.
boldref_to_targetspace_IgnoreExit(boldref_file, t1w_to_mni_file, boldref_to_t1w_file, mni_template, output_tmp, mkdir, proc) ==
    IF \/ boldref_file = None \/ t1w_to_mni_file = None
       \/ boldref_to_t1w_file = None \/ output_tmp = None
    THEN [returned |-> FALSE, success |-> FALSE, output_image |-> None,
          invoked |-> FALSE]
    ELSE [returned |-> TRUE, success |-> (mkdir = "ok"),
          output_image |-> StripExt(boldref_file)
                           \o "_space-MNI152NLin2009cAsym_brain" \o NiiGz,
          invoked |-> (mkdir = "ok")]

\* Result: returned = FALSE when an exception leaves the function.
boldref_to_targetspace(boldref_file, t1w_to_mni_file, boldref_to_t1w_file, mni_template, output_tmp, mkdir, proc) ==
    IF \/ boldref_file = None \/ t1w_to_mni_file = None
       \/ boldref_to_t1w_file = None \/ output_tmp = None
    THEN \* Path(None) raises TypeError; the handler then reads output_image,
         \* which is still unbound: UnboundLocalError leaves the function.
         [returned |-> FALSE, success |-> FALSE, output_image |-> None,
          invoked |-> FALSE]
    ELSE LET base_name == StripExt(boldref_file)
             out_file_name == base_name \o "_space-MNI152NLin2009cAsym_brain" \o NiiGz
         IN  IF mkdir = "raise"
             THEN [returned |-> TRUE, success |-> FALSE,
                   output_image |-> out_file_name, invoked |-> FALSE]
             ELSE [returned |-> TRUE, success |-> (proc = "rc0"),
                   output_image |-> out_file_name, invoked |-> TRUE]

\* ----------------------------------------------------------- mask resolver
\* What the brain-extraction workflow reports: "raise" or a list of nodes.
\* A node: whether its name contains "skullstrip", its 'mask_file' output and
\* its first other truthy output whose key ends in 'mask_file'; an output is
\* "none" (absent or empty), "missing" (names no file on disk) or "exists".
FileRefs == {"none", "missing", "exists"}
Nodes == [skullstrip : BOOLEAN, mask_file : FileRefs, other_mask_file : FileRefs]
RECURSIVE SeqsUpTo(_, _)
SeqsUpTo(S, n) ==
    IF n = 0 THEN {<<>>}
    ELSE LET shorter == SeqsUpTo(S, n - 1)
         IN  shorter \cup {Append(s, x) : s \in {t \in shorter : Len(t) = n - 1}, x \in S}
WorkflowResults == [raised : {TRUE}, nodes : {<<>>}]
                   \cup [raised : {FALSE}, nodes : SeqsUpTo(Nodes, MaxNodes)]

MaskPathOf(image_path, output_tmp) == StripExt(image_path) \o "_mask" \o NiiGz

NodeMaskFile(node) ==
    IF node.mask_file # "none" THEN node.mask_file ELSE node.other_mask_file

\* Returns <<success, mni_image, mask_target>>; mask_target is <<>> for None.
target_extractbrain(mni_image, output_tmp, wf) ==
    IF wf.raised THEN <<FALSE, mni_image, <<>> >>
    ELSE IF \E k \in 1 .. Len(wf.nodes) :
               /\ wf.nodes[k].skullstrip
               /\ NodeMaskFile(wf.nodes[k]) = "exists"
         THEN <<TRUE, mni_image, <<MaskPathOf(mni_image, output_tmp)>> >>
         ELSE <<FALSE, mni_image, <<>> >>

\* Mutant: the image binarised with `img != 0`.
fallback_mask_NonZero(out_data, mni_mask) ==
    [v \in Voxels |-> (IF out_data[v] # 0 THEN 1 ELSE 0) * mni_mask[v]]

\* math_img('img > 0') followed by math_img('subbin*mnimask').
fallback_mask(out_data, mni_mask) ==
    [v \in Voxels |-> (IF out_data[v] > 0 THEN 1 ELSE 0) * mni_mask[v]]

\* ------------------------------------------------------------------- state
VARIABLES
    script,          \* what runs: one of the two scripts, a call of
                     \* process_subject_run_minimal, or "unit"
    layout,          \* the derivatives store
    mni_brain_runs,  \* the template-space masks the precomputed-mask variant finds
    pc,              \* position in the running program
    i,               \* number of masks the loop of process_subject_run_full has started
    qc_results,      \* the list of collected records
    run_results,     \* what each finished mask gave (<<>> for nothing), in order
    loc,             \* the locals of the current process_subject_run_minimal call
    obs,             \* what the environment saw of the current call
    outcome,         \* "running", "returned", "written", "ValueError",
                     \* "ImportError" or "fault" (an uncaught exception)
    df_qcresults,    \* the table written at the end
    call,            \* the arguments of the function that is called
    ret              \* its result

vars == <<script, layout, mni_brain_runs, pc, i, qc_results, run_results, loc,
          obs, outcome, df_qcresults, call, ret>>

\* The template brain mask shipped with the repository: a fixed, non-empty
\* mask that leaves the last voxel of the grid outside the brain.
MniMask == [v \in Voxels |-> IF v < NVox \/ NVox = 1 THEN 1 ELSE 0]
TmpStudy == "tmp_study"
MniTemplate == "tpl-MNI152NLin2009cAsym_res-02_desc-brain_T1w.nii.gz"

\* ------------------------------------------------------- store interface
\* A store holds files of one run: some of its run-to-T1w transform, the
\* T1w-to-template transform of its subject, and its reference image.
Subjects == {"01", "02"}
RunKeyUniverse == [subject : Subjects, session : {None, "1"}, task : {"rest"},
                   run : {None, "1"}]
FileKinds == {"xfm_t1w", "xfm_mni", "boldref"}
Layouts == [key : RunKeyUniverse, files : SUBSET FileKinds]

\* fmrirepderiv_layout.get(..., return_type='file'): the matching files.  The
\* query for the T1w-to-template transform filters by subject alone.
layout_get(L, key, kind) ==
    IF kind \in L.files /\ key.subject = L.key.subject
       /\ (kind = "xfm_mni" \/ key = L.key)
    THEN IF kind = "xfm_t1w"
         THEN <<StoreFile(L.key, "_from-boldref_to-T1w_mode-image_desc-coreg_xfm", ".txt")>>
         ELSE IF kind = "xfm_mni"
         THEN <<"sub-" \o L.key.subject
                \o "_from-T1w_to-MNI152NLin2009cAsym_mode-image_xfm.h5">>
         ELSE <<StoreFile(L.key, "_desc-coreg_boldref", NiiGz)>>
    ELSE <<>>

\* ------------------------------------------------- per-run pipeline state
NoLoc == [boldref_to_t1w_files |-> <<>>, t1w_to_mni_files |-> <<>>,
          coreg_boldref_files |-> <<>>, ants_success |-> FALSE,
          mni_path_out |-> None, out_img |-> <<>>,
          num_extreme_voxels |-> 0, brainextract_success |-> FALSE,
          mask_target |-> <<>>, mask_data |-> <<>>, qc_result |-> <<>>]
NoObs == [ants_calls |-> 0, wf_calls |-> 0, ants_exit |-> None,
          wf_class |-> None, stages |-> <<>>]

\* sub, taskname, sess, runnum of the call
CurrentKey == call

\* How the environment's workflow result falls into the cases of the mask
\* resolver's contract.
WfClass(wf) ==
    IF wf.raised THEN "raised"
    ELSE LET strip == {k \in 1 .. Len(wf.nodes) : wf.nodes[k].skullstrip}
         IN  IF \A k \in strip : /\ wf.nodes[k].mask_file = "none"
                                 /\ wf.nodes[k].other_mask_file = "none"
             THEN "no_mask_output"
             ELSE IF \E k \in strip : NodeMaskFile(wf.nodes[k]) = "exists"
                  THEN "mask_found" ELSE "mask_missing"

\* ------------------------------------------------------------ flagging rule
\* the float literal 0.80, and the int thresholds as the floats they are
\* compared as
DiceThreshold == FDiv(FromInt(DiceThreshNum), FromInt(DiceThreshDen))
VoxOutThreshold == FromInt(VoxOutThresh)
NumVoxThreshold == FromInt(NumVoxThresh)

\* Mutant: the dice comparison made inclusive.
flagged_minimal_Inclusive(row) ==
    IF \/ FLess(row.dice, DiceThreshold) \/ row.dice = DiceThreshold
       \/ FGreater(row.voxoutmask, VoxOutThreshold)
       \/ FGreater(row.numvox_grtr_1e10, NumVoxThreshold)
    THEN 1 ELSE 0

\* fp_derivs_check.py: (dice < 0.80) | (voxoutmask > 20) | (numvox_grtr_1e10 > 0)
flagged_minimal(row) ==
    IF \/ FLess(row.dice, DiceThreshold)
       \/ FGreater(row.voxoutmask, VoxOutThreshold)
       \/ FGreater(row.numvox_grtr_1e10, NumVoxThreshold)
    THEN 1 ELSE 0

\* full_derivs_check.py: the same rule, written out a second time.
flagged_full(row) ==
    IF \/ FLess(row.dice, DiceThreshold)
       \/ FGreater(row.voxoutmask, VoxOutThreshold)
       \/ FGreater(row.numvox_grtr_1e10, NumVoxThreshold)
    THEN 1 ELSE 0

WithFlag(row, f) ==
    [img1 |-> row.img1, img1name |-> row.img1name, img2 |-> row.img2,
     dice |-> row.dice, voxinmask |-> row.voxinmask,
     voxoutmask |-> row.voxoutmask, ratio_inoutmask |-> row.ratio_inoutmask,
     numvox_grtr_1e10 |-> row.numvox_grtr_1e10, flagged |-> f]

\* ---------------------------------------------------------- fp_derivs_check
\* `from utils import (voxel_inout_ratio, boldmask_to_targetspace,
\* extract_brain, process_subject_run)`: utils.py defines the first name and
\* none of the other three, so the import raises ImportError and the script
\* ends before it builds the layout.
ImportUtils ==
    /\ script = "fp_derivs_check" /\ pc = "import"
    /\ outcome' = "ImportError"
    /\ pc' = "done"
    /\ UNCHANGED <<script, layout, mni_brain_runs, i, qc_results, run_results,
                   loc, obs, df_qcresults, call, ret>>

\* ------------------------------------------- process_subject_run_minimal
Stage(name) == [obs EXCEPT !.stages = Append(@, name)]
Skip(o) == [o EXCEPT !.stages = Append(@, "Skipped")]

\* 1. the run-to-T1w transform
QueryT1w ==
    /\ pc = "q_t1w"
    /\ LET files == layout_get(layout, CurrentKey, "xfm_t1w")
       IN  /\ loc' = [loc EXCEPT !.boldref_to_t1w_files = files]
           /\ obs' = IF files = <<>> THEN Skip(Stage("ResolveInputs"))
                     ELSE Stage("ResolveInputs")
           /\ pc' = IF files = <<>> THEN "return" ELSE "q_mni"
    /\ UNCHANGED <<script, layout, mni_brain_runs, i, qc_results, run_results,
                   outcome, df_qcresults, call, ret>>

\* 2. the T1w-to-template transform (a query by subject alone)
QueryMni ==
    /\ pc = "q_mni"
    /\ LET files == layout_get(layout, CurrentKey, "xfm_mni")
       IN  /\ loc' = [loc EXCEPT !.t1w_to_mni_files = files]
           /\ obs' = IF files = <<>> THEN Skip(obs) ELSE obs
           /\ pc' = IF files = <<>> THEN "return" ELSE "q_boldref"
    /\ UNCHANGED <<script, layout, mni_brain_runs, i, qc_results, run_results,
                   outcome, df_qcresults, call, ret>>

\* 3. the coregistered reference image
QueryBoldref ==
    /\ pc = "q_boldref"
    /\ LET files == layout_get(layout, CurrentKey, "boldref")
       IN  /\ loc' = [loc EXCEPT !.coreg_boldref_files = files]
           /\ obs' = IF files = <<>> THEN Skip(obs) ELSE obs
           /\ pc' = IF files = <<>> THEN "return" ELSE "transform"
    /\ UNCHANGED <<script, layout, mni_brain_runs, i, qc_results, run_results,
                   outcome, df_qcresults, call, ret>>

\* Mutant: a failed transform is tried again instead of ending the run.
Transform_Retry ==
    /\ pc = "transform"
    /\ \E mkdir \in MkdirOutcomes, proc \in SubprocessOutcomes :
         LET r == boldref_to_targetspace(loc.coreg_boldref_files[1],
                                         loc.t1w_to_mni_files[1],
                                         loc.boldref_to_t1w_files[1],
                                         MniTemplate, TmpStudy, mkdir, proc)
             o == [Stage("ApplyTransforms") EXCEPT
                     !.ants_calls = IF r.invoked THEN @ + 1 ELSE @,
                     !.ants_exit = IF r.invoked THEN proc ELSE None]
         IN  IF ~r.success
             THEN /\ loc' = loc /\ obs' = o /\ pc' = "transform"
             ELSE /\ \E written \in [ok : {TRUE}, data : Volumes] :
                       loc' = [loc EXCEPT !.ants_success = TRUE,
                                          !.mni_path_out = r.output_image,
                                          !.out_img = <<written>>]
                  /\ obs' = o /\ pc' = "load"
    /\ UNCHANGED <<script, layout, mni_brain_runs, i, qc_results, run_results,
                   outcome, df_qcresults, call, ret>>

\* The call of boldref_to_targetspace and the test of ants_success.  With exit
\* status 0 the tool has left an output file: a volume, or nothing readable.
Transform ==
    /\ pc = "transform"
    /\ \E mkdir \in MkdirOutcomes, proc \in SubprocessOutcomes :
         LET r == boldref_to_targetspace(loc.coreg_boldref_files[1],
                                         loc.t1w_to_mni_files[1],
                                         loc.boldref_to_t1w_files[1],
                                         MniTemplate, TmpStudy, mkdir, proc)
             o == [Stage("ApplyTransforms") EXCEPT
                     !.ants_calls = IF r.invoked THEN @ + 1 ELSE @,
                     !.ants_exit = IF r.invoked THEN proc ELSE None]
         IN  IF ~r.returned
             THEN /\ outcome' = "fault" /\ pc' = "done"
                  /\ obs' = o /\ loc' = loc
             ELSE IF ~r.success
             THEN /\ loc' = [loc EXCEPT !.mni_path_out = r.output_image]
                  /\ obs' = Skip(o) /\ pc' = "return" /\ outcome' = outcome
             ELSE /\ \E written \in [ok : {TRUE}, data : Volumes]
                                    \cup {[ok |-> FALSE, data |-> [v \in Voxels |-> 0]]} :
                       loc' = [loc EXCEPT !.ants_success = TRUE,
                                          !.mni_path_out = r.output_image,
                                          !.out_img = <<written>>]
                  /\ obs' = o /\ pc' = "load" /\ outcome' = outcome
    /\ UNCHANGED <<script, layout, mni_brain_runs, i, qc_results, run_results,
                   df_qcresults, call, ret>>

\* load_img(mni_path_out) and the count of extreme voxels; load_img raises on
\* a file it cannot read, and nothing in the pipeline catches that.
LoadAndCount ==
    /\ pc = "load"
    /\ IF ~loc.out_img[1].ok
       THEN /\ outcome' = "fault" /\ pc' = "done" /\ loc' = loc
       ELSE /\ loc' = [loc EXCEPT !.num_extreme_voxels =
                                      extreme_voxel_count(loc.out_img[1].data)]
            /\ pc' = "extract" /\ outcome' = outcome
    /\ UNCHANGED <<script, layout, mni_brain_runs, i, qc_results, run_results,
                   obs, df_qcresults, call, ret>>

\* The call of target_extractbrain and the test of brainextract_success.  The
\* loaded image is read again only by the fallback, so it is kept only then.
ExtractBrain ==
    /\ pc = "extract"
    /\ \E wf \in WorkflowResults :
         LET r == target_extractbrain(loc.mni_path_out, TmpStudy, wf)
         IN  /\ obs' = [Stage("ResolveMask") EXCEPT !.wf_calls = @ + 1,
                                                    !.wf_class = WfClass(wf)]
             /\ loc' = [loc EXCEPT !.brainextract_success = r[1],
                                   !.mask_target = r[3],
                                   !.out_img = IF r[1] THEN <<>> ELSE @]
             /\ pc' = IF r[1] THEN "measure" ELSE "fallback"
    /\ UNCHANGED <<script, layout, mni_brain_runs, i, qc_results, run_results,
                   outcome, df_qcresults, call, ret>>

\* The fallback mask, written when brain extraction did not succeed.
Fallback ==
    /\ pc = "fallback"
    /\ loc' = [loc EXCEPT !.mask_target = <<MaskPathOf(loc.mni_path_out, TmpStudy)>>,
                          !.mask_data = <<fallback_mask(loc.out_img[1].data, MniMask)>>]
    /\ obs' = Stage("Fallback")
    /\ pc' = "measure"
    /\ UNCHANGED <<script, layout, mni_brain_runs, i, qc_results, run_results,
                   outcome, df_qcresults, call, ret>>

\* similarity_boldtarget_metrics on the mask file, outside any try.  A
\* fallback mask reads back as written.  A mask the workflow named was only
\* tested for existence and copied: it holds whatever the workflow put there,
\* a volume or nothing load_img can read, and then the exception leaves the
\* pipeline.
Measure ==
    /\ pc = "measure"
    /\ \E m \in (IF loc.mask_data # <<>>
                 THEN {[ok |-> TRUE, data |-> loc.mask_data[1]]}
                 ELSE [ok : {TRUE}, data : BinaryVolumes]
                      \cup {[ok |-> FALSE, data |-> [v \in Voxels |-> 0]]}) :
         IF ~m.ok
         THEN /\ outcome' = "fault" /\ pc' = "done" /\ loc' = loc
              /\ obs' = Stage("Measure")
         ELSE /\ loc' = [loc EXCEPT
                           !.mask_data = <<m.data>>,
                           !.qc_result =
                              <<similarity_boldtarget_metrics(
                                  [path |-> loc.mask_target[1], data |-> m.data],
                                  MniMask, FromInt(loc.num_extreme_voxels))>>]
              /\ obs' = [obs EXCEPT !.stages = @ \o <<"Measure", "Recorded">>]
              /\ pc' = "return" /\ outcome' = outcome
    /\ UNCHANGED <<script, layout, mni_brain_runs, i, qc_results, run_results,
                   df_qcresults, call, ret>>

\* `return None` / `return qc_brain_checks`: the caller has the result.
Return ==
    /\ script = "process_subject_run_minimal" /\ pc = "return"
    /\ ret' = loc.qc_result
    /\ outcome' = "returned"
    /\ pc' = "done"
    /\ UNCHANGED <<script, layout, mni_brain_runs, i, qc_results, run_results,
                   loc, obs, df_qcresults, call>>

\* ------------------------------------------------ process_subject_run_full
\* One pass of `for brain_path in mni_brain_runs` inside the try block: a
\* mask that cannot be measured raises, and the handler ends the loop.
FullIterate ==
    /\ script = "full_derivs_check" /\ pc = "full_loop"
    /\ i < Len(mni_brain_runs)
    /\ i' = i + 1
    /\ LET brain == mni_brain_runs[i + 1]
       IN  IF ~brain.ok
           THEN /\ pc' = "full_return"
                /\ UNCHANGED <<qc_results, run_results>>
           ELSE LET qc_result == similarity_boldtarget_metrics(
                                     [path |-> brain.path, data |-> brain.data],
                                     MniMask, NaN)
                IN  /\ qc_results' = Append(qc_results, qc_result)
                    /\ run_results' = Append(run_results, <<qc_result>>)
                    /\ pc' = pc
    /\ UNCHANGED <<script, layout, mni_brain_runs, loc, obs, outcome,
                   df_qcresults, call, ret>>

FullLoopEnd ==
    /\ script = "full_derivs_check" /\ pc = "full_loop"
    /\ i = Len(mni_brain_runs)
    /\ pc' = "full_return"
    /\ UNCHANGED <<script, layout, mni_brain_runs, i, qc_results, run_results,
                   loc, obs, outcome, df_qcresults, call, ret>>

\* full_derivs_check.py after the call: the empty-table error, or the flags.
FullFinish ==
    /\ script = "full_derivs_check" /\ pc = "full_return"
    /\ IF qc_results = <<>>
       THEN /\ outcome' = "ValueError" /\ df_qcresults' = <<>>
       ELSE /\ outcome' = "written"
            /\ df_qcresults' = [k \in 1 .. Len(qc_results) |->
                                  WithFlag(qc_results[k], flagged_full(qc_results[k]))]
    /\ pc' = "done"
    /\ UNCHANGED <<script, layout, mni_brain_runs, i, qc_results, run_results,
                   loc, obs, call, ret>>

\* ---------------------------------------------------------- specification
\* The runs of a study that has template-space masks, in the order of their
\* file names.
FullKeys == <<[subject |-> "01", session |-> None, task |-> "rest", run |-> "1"],
              [subject |-> "02", session |-> "1", task |-> "rest", run |-> None],
              [subject |-> "03", session |-> None, task |-> "rest", run |-> None]>>
FullMaskTail == "_space-MNI152NLin2009cAsym_res-2_desc-brain_mask"
\* What a mask file holds: a binary volume, or nothing load_img can read.
MaskContents == [ok : {TRUE}, data : BinaryVolumes]
                \cup {[ok |-> FALSE, data |-> [v \in Voxels |-> 0]]}
\* fmrilayout.get(..., return_type='file'): every matching file once, sorted
\* by path.
MaskLists ==
    {[j \in 1 .. Len(ks) |-> [path |-> StoreFile(FullKeys[ks[j]], FullMaskTail, NiiGz),
                              ok |-> cs[j].ok, data |-> cs[j].data]] :
        <<ks, cs>> \in {<<ks, cs>> \in SeqsUpTo(1 .. Len(FullKeys), MaxMasks)
                                      \X SeqsUpTo(MaskContents, MaxMasks) :
                           /\ Len(ks) = Len(cs)
                           /\ \A a, b \in 1 .. Len(ks) : a < b => ks[a] < ks[b]}}
EmptyLayout == [key |-> [subject |-> "01", session |-> None, task |-> "rest",
                         run |-> None],
                files |-> {}]
NoCall == [subject |-> None, session |-> None, task |-> None, run |-> None]

Init ==
    /\ script \in {"fp_derivs_check", "full_derivs_check",
                   "process_subject_run_minimal"}
    /\ IF script = "fp_derivs_check"
       THEN /\ layout \in Layouts /\ mni_brain_runs = <<>> /\ pc = "import"
            /\ call = NoCall
       ELSE IF script = "full_derivs_check"
       THEN /\ layout = EmptyLayout /\ mni_brain_runs \in MaskLists
            /\ pc = "full_loop" /\ call = NoCall
       ELSE /\ layout \in Layouts /\ mni_brain_runs = <<>> /\ pc = "q_t1w"
            /\ call \in {k \in RunKeyUniverse : /\ k.session = layout.key.session
                                                /\ k.run = layout.key.run}
    /\ i = 0 /\ qc_results = <<>> /\ run_results = <<>>
    /\ loc = NoLoc /\ obs = NoObs
    /\ outcome = "running" /\ df_qcresults = <<>>
    /\ ret = <<>>

Next ==
    \/ ImportUtils
    \/ QueryT1w \/ QueryMni \/ QueryBoldref \/ Transform
    \/ LoadAndCount \/ ExtractBrain \/ Fallback \/ Measure \/ Return
    \/ FullIterate \/ FullLoopEnd \/ FullFinish

Spec == Init /\ [][Next]_vars

\* ------------------------------------------------- calls of single functions
AggregatorIdle ==
    /\ script = "unit" /\ layout = EmptyLayout /\ mni_brain_runs = <<>>
    /\ i = 0 /\ qc_results = <<>> /\ run_results = <<>>
    /\ loc = NoLoc /\ obs = NoObs /\ outcome = "running" /\ df_qcresults = <<>>
    /\ ret = <<>>

aggVars == <<script, layout, mni_brain_runs, i, qc_results, run_results, loc,
             obs, outcome, df_qcresults>>

\* --- the flagging rule on a collected table
FlagDice == {Zero, FDiv(FromInt(79), FromInt(100)), FDiv(FromInt(4), FromInt(5)),
             FromInt(1)}
FlagVoxOut == {0, 20, 21}
FlagNumVox(variant) == IF variant = "minimal" THEN {FromInt(0), FromInt(1)} ELSE {NaN}
FlagRow(d, vo, nv) ==
    [img1 |-> "subject-01_task-rest", img1name |-> "sub-01_task-rest_mask.nii.gz",
     img2 |-> "mni152", dice |-> d, voxinmask |-> FromInt(Hundred - vo),
     voxoutmask |-> FromInt(vo),
     ratio_inoutmask |-> IF vo # 0 THEN FDiv(FromInt(Hundred - vo), FromInt(vo))
                         ELSE Inf,
     numvox_grtr_1e10 |-> nv]
FlagRows(variant) ==
    {FlagRow(d, vo, nv) : d \in FlagDice, vo \in FlagVoxOut, nv \in FlagNumVox(variant)}

InitFlag ==
    /\ AggregatorIdle /\ pc = "flag"
    /\ \E variant \in {"minimal", "full"} :
         call \in [variant : {variant},
                   table : SeqsUpTo(FlagRows(variant), MaxRows) \ {<<>>}]

FlagMinimal ==
    /\ pc = "flag" /\ call.variant = "minimal"
    /\ ret' = [k \in 1 .. Len(call.table) |->
                 WithFlag(call.table[k], flagged_minimal(call.table[k]))]
    /\ pc' = "done"
    /\ UNCHANGED <<aggVars, call>>

FlagFull ==
    /\ pc = "flag" /\ call.variant = "full"
    /\ ret' = [k \in 1 .. Len(call.table) |->
                 WithFlag(call.table[k], flagged_full(call.table[k]))]
    /\ pc' = "done"
    /\ UNCHANGED <<aggVars, call>>

SpecFlag == InitFlag /\ [][FlagMinimal \/ FlagFull]_vars

\* --- boldref_to_targetspace on arbitrary arguments
SomeXfmT1w == StoreFile([subject |-> "01", session |-> None, task |-> "rest", run |-> None],
                        "_from-boldref_to-T1w_mode-image_desc-coreg_xfm", ".txt")
SomeXfmMni == "sub-01_from-T1w_to-MNI152NLin2009cAsym_mode-image_xfm.h5"
BoldrefNames == {StoreFile(e, "_desc-coreg_boldref", NiiGz) : e \in RunKeyUniverse}
                \cup {"sub-01_task-rest_boldref.nii", "ref.gz"}

InitTransform ==
    /\ AggregatorIdle /\ pc = "transform_call"
    /\ call \in [boldref_file : BoldrefNames \cup {None},
                 t1w_to_mni_file : {SomeXfmMni, None},
                 boldref_to_t1w_file : {SomeXfmT1w, None},
                 mni_template : {MniTemplate},
                 output_tmp : {TmpStudy, None}]

CallTransform ==
    /\ pc = "transform_call"
    /\ \E mkdir \in MkdirOutcomes, proc \in SubprocessOutcomes :
         ret' = <<[mkdir |-> mkdir, proc |-> proc,
                   result |-> boldref_to_targetspace(
                                 call.boldref_file, call.t1w_to_mni_file,
                                 call.boldref_to_t1w_file, call.mni_template,
                                 call.output_tmp, mkdir, proc)]>>
    /\ pc' = "done"
    /\ UNCHANGED <<aggVars, call>>

SpecTransform == InitTransform /\ [][CallTransform]_vars

\* --- voxel_inout_ratio on arbitrary volumes
RatioImageValues == {-2, 0, 1}
MaskValues == {-1, 0, 1}

InitMetrics ==
    /\ AggregatorIdle /\ pc = "ratio_call"
    /\ call \in [img : [1 .. RatioVox -> RatioImageValues],
                 mask : [1 .. RatioVox -> MaskValues]]

CallVoxelInoutRatio ==
    /\ pc = "ratio_call"
    /\ ret' = voxel_inout_ratio(call.img, call.mask)
    /\ pc' = "done"
    /\ UNCHANGED <<aggVars, call>>

SpecMetrics == InitMetrics /\ [][CallVoxelInoutRatio]_vars

\* ================================================================ properties
InCall == script = "process_subject_run_minimal"

RecordFields == {"img1", "img1name", "img2", "dice", "voxinmask", "voxoutmask",
                 "ratio_inoutmask", "numvox_grtr_1e10"}
Filled(rec) ==
    /\ DOMAIN rec = RecordFields
    /\ rec.img1 # "" /\ rec.img1name # "" /\ rec.img2 = "mni152"
    /\ IsFinite(rec.dice) /\ IsFinite(rec.voxinmask) /\ IsFinite(rec.voxoutmask)
    /\ rec.ratio_inoutmask # NaN
    /\ IsFinite(rec.numvox_grtr_1e10)
Unflagged(row) == [f \in RecordFields |-> row[f]]
Missing == \E kind \in FileKinds : layout_get(layout, call, kind) = <<>>

\* 2^-40, below 1e-12
Tolerance == Double(MinMantissa, -(MantBits - 1) - 40)
MinOf(S) == CHOOSE a \in S : \A b \in S : a <= b
Scaled(x, e) == ShiftLeft(x.m, x.e - e)
\* |x - y| <= Tolerance, compared exactly on a common exponent
Close(x, y) ==
    /\ IsFinite(x) /\ IsFinite(y)
    /\ LET e == MinOf({x.e, y.e, Tolerance.e})
           a == Scaled(x, e)
           b == Scaled(y, e)
       IN  ~BigLess(Scaled(Tolerance, e),
                    IF BigLess(a, b) THEN BigSub(b, a) ELSE BigSub(a, b))

DiceBelow == {Zero, FDiv(FromInt(79), FromInt(100))}
VoxOutAbove == {FromInt(21)}
NumVoxAbove == {FromInt(1)}
\* C1: in both aggregators every row of the table gets flagged = 1 exactly
\* when dice < 0.80 or voxoutmask > 20 or numvox_grtr_1e10 > 0 (each strict,
\* each false on NaN), and 0 otherwise; the rows are otherwise unchanged, and
\* the row with dice 0.80, voxoutmask 20 and no extreme voxel is not flagged.
C1_FlagRule ==
    pc = "done" =>
      /\ Len(ret) = Len(call.table)
      /\ \A k \in 1 .. Len(ret) :
           LET r == ret[k]
           IN  /\ Unflagged(r) = call.table[k]
               /\ r.flagged = (IF \/ r.dice \in DiceBelow
                                  \/ r.voxoutmask \in VoxOutAbove
                                  \/ r.numvox_grtr_1e10 \in NumVoxAbove
                               THEN 1 ELSE 0)

C1_Witness ==
    /\ pc = "done" /\ call.variant = "minimal" /\ Len(ret) = 2
    /\ ret[1].dice = FDiv(FromInt(4), FromInt(5))
    /\ ret[1].voxoutmask = FromInt(20)
    /\ ret[1].numvox_grtr_1e10 = FromInt(0) /\ ret[1].flagged = 0
    /\ ret[2].dice = FDiv(FromInt(79), FromInt(100)) /\ ret[2].flagged = 1

\* C2 as stated: a record is returned only with all eight fields filled, for
\* an image transformed with exit status 0, from a mask that has at least
\* one non-zero voxel.
C2_Original ==
    (InCall /\ loc.qc_result # <<>>) =>
      /\ Filled(loc.qc_result[1])
      /\ obs.ants_exit = "rc0"
      /\ \E v \in Voxels : loc.mask_data[1][v] # 0

\* C2 amended: a run returns no record or one complete record; a record has
\* all eight fields filled, names the mask file it was measured on, carries
\* the extreme-voxel count of the transformed image, and is only returned
\* after the transform tool exited with status 0 (the mask may be all zero);
\* a call that ends in an exception has produced no record.
C2_Amended ==
    InCall =>
      /\ Len(loc.qc_result) <= 1
      /\ loc.qc_result # <<>> =>
           /\ Filled(loc.qc_result[1])
           /\ obs.ants_exit = "rc0" /\ loc.ants_success
           /\ loc.mask_target # <<>> /\ loc.mask_data # <<>>
           /\ loc.qc_result[1].img1name = loc.mask_target[1]
           /\ loc.qc_result[1].numvox_grtr_1e10 = FromInt(loc.num_extreme_voxels)
      /\ outcome = "returned" => ret = loc.qc_result
      /\ outcome = "fault" => loc.qc_result = <<>> /\ ret = <<>>

C2_Witness ==
    /\ InCall /\ outcome = "returned" /\ ret # <<>>
    /\ \A v \in Voxels : loc.mask_data[1][v] = 0
    /\ obs.wf_class = "raised"

\* C3 as stated: no fault leaves the processing of a run, and every mask that
\* yields a record when measured alone has that record in the final table.
C3_Claim ==
    /\ outcome # "fault"
    /\ (script = "full_derivs_check" /\ pc = "done") =>
         \A k \in 1 .. Len(mni_brain_runs) :
           mni_brain_runs[k].ok =>
             \E j \in 1 .. Len(qc_results) :
               qc_results[j] = similarity_boldtarget_metrics(
                                   [path |-> mni_brain_runs[k].path,
                                    data |-> mni_brain_runs[k].data], MniMask, NaN)

\* C4 as stated: a run whose store lacks the run-to-T1w transform, the
\* T1w-to-template transform or the reference image returns no record without
\* a fault and without the transform tool or the extraction workflow being
\* invoked, and the per-run aggregator ends with a table (or the empty-table
\* error) in which that run has no row.
C4_Claim ==
    /\ (InCall /\ Missing) =>
         /\ obs.ants_calls = 0 /\ obs.wf_calls = 0
         /\ loc.qc_result = <<>> /\ ret = <<>>
         /\ outcome \in {"running", "returned"}
         /\ pc \in {"q_t1w", "q_mni", "q_boldref", "return", "done"}
    /\ (script = "fp_derivs_check" /\ pc = "done") =>
         /\ outcome \in {"written", "ValueError"}
         /\ \A j \in 1 .. Len(df_qcresults) :
              df_qcresults[j].img1name
                # MaskPathOf(StripExt(StoreFile(layout.key, "_desc-coreg_boldref", NiiGz))
                             \o "_space-MNI152NLin2009cAsym_brain" \o NiiGz, TmpStudy)

\* C5 as stated: once an aggregator has gone through its runs, it ends in the
\* empty-table error exactly when no run gave a record; otherwise the written
\* table holds, in order, one row for each run that gave a record.
C5_Claim ==
    (pc = "done" /\ script \in {"fp_derivs_check", "full_derivs_check"}) =>
      /\ outcome \in {"ValueError", "written"}
      /\ outcome = "ValueError" <=> \A k \in 1 .. Len(run_results) : run_results[k] = <<>>
      /\ outcome = "written" =>
           [k \in 1 .. Len(df_qcresults) |-> Unflagged(df_qcresults[k])] = qc_results
      /\ outcome = "ValueError" => df_qcresults = <<>>

FallbackCases == {"raised", "no_mask_output", "mask_missing"}
\* C6: once the extraction workflow has been called on a transformed image,
\* the mask stage leaves exactly one mask, at <image-stem>_mask.nii.gz; when
\* the workflow raised, reported no skullstrip node with a mask output, or
\* named only mask files that do not exist, the mask that is measured is 1
\* exactly where the image is positive and the reference mask is set, and 0
\* elsewhere, and the call returns a record; no exception leaves the call in
\* the mask stage, whatever the workflow did.
C6_MaskTotal ==
    (InCall /\ obs.wf_calls > 0) =>
      /\ pc \in {"fallback", "measure", "return", "done"}
      /\ (pc \in {"fallback", "measure", "return"} \/ obs.wf_class \in FallbackCases)
           => outcome # "fault"
      /\ obs.wf_class \in FallbackCases <=> ~loc.brainextract_success
      /\ pc \in {"measure", "return", "done"} =>
           /\ Len(loc.mask_target) = 1
           /\ loc.mask_target[1] = StripExt(loc.mni_path_out) \o "_mask" \o ".nii.gz"
      /\ (pc \in {"measure", "return", "done"} /\ obs.wf_class \in FallbackCases) =>
           /\ loc.mask_data # <<>>
           /\ \A v \in Voxels :
                loc.mask_data[1][v] =
                  (IF loc.out_img[1].data[v] > 0 /\ MniMask[v] # 0 THEN 1 ELSE 0)
      /\ (pc \in {"return", "done"} /\ obs.wf_class \in FallbackCases) =>
           /\ loc.qc_result # <<>>
           /\ pc = "done" => outcome = "returned" /\ ret = loc.qc_result

C6_Witness ==
    /\ InCall /\ pc = "done" /\ outcome = "returned" /\ obs.wf_class = "mask_missing"
    /\ ret # <<>>
    /\ \E v \in Voxels : loc.mask_data[1][v] = 1
    /\ \E v \in Voxels : loc.out_img[1].data[v] < 0

\* C7 as stated: a call of boldref_to_targetspace always returns to its
\* caller, and returns success = False unless the tool ran and exited 0.
C7_Claim ==
    (script = "unit" /\ pc = "done") =>
      /\ ret[1].result.returned
      /\ (ret[1].proc # "rc0" \/ ret[1].mkdir # "ok") => ~ret[1].result.success

NzIn == Cardinality({v \in DOMAIN call.img : call.img[v] # 0 /\ call.mask[v] > 0})
NzOut == Cardinality({v \in DOMAIN call.img : call.img[v] # 0 /\ ~(call.mask[v] > 0)})
\* C8 as stated: voxel_inout_ratio gives 100*nz_in/total and 100*nz_out/total,
\* with a sum of exactly 100, when total > 0, and 0 and 0 when total = 0; the
\* ratio is +infinity whenever percent_outside is 0, and never NaN.
C8_Original ==
    pc = "done" =>
      /\ IsFinite(ret[1]) /\ IsFinite(ret[2])
      /\ NzIn + NzOut > 0 =>
           /\ ret[1] = FDiv(FromInt(Hundred * NzIn), FromInt(NzIn + NzOut))
           /\ ret[2] = FDiv(FromInt(Hundred * NzOut), FromInt(NzIn + NzOut))
           /\ FAdd(ret[1], ret[2]) = FromInt(Hundred)
      /\ NzIn + NzOut = 0 => ret[1] = Zero /\ ret[2] = Zero
      /\ ret[2] = Zero => ret[3] = Inf
      /\ ret[3] # NaN

\* C8 amended: when total > 0 the two percentages are (nz_in/total)*100 and
\* (nz_out/total)*100 in double precision, so that each equals
\* 100*nz_in/total and 100*nz_out/total, and their sum equals 100, up to
\* rounding (within 1e-12); when total = 0 both are 0; the ratio is +infinity
\* whenever percent_outside is 0, and never NaN.
C8_Amended ==
    pc = "done" =>
      /\ IsFinite(ret[1]) /\ IsFinite(ret[2])
      /\ NzIn + NzOut > 0 =>
           /\ Close(ret[1], FDiv(FromInt(Hundred * NzIn), FromInt(NzIn + NzOut)))
           /\ Close(ret[2], FDiv(FromInt(Hundred * NzOut), FromInt(NzIn + NzOut)))
           /\ Close(FAdd(ret[1], ret[2]), FromInt(Hundred))
      /\ NzIn + NzOut = 0 => ret[1] = Zero /\ ret[2] = Zero
      /\ ret[2] = Zero => ret[3] = Inf
      /\ ret[3] # NaN

C8_Witness ==
    /\ pc = "done" /\ script = "unit"
    /\ NzIn = 1 /\ NzOut = 2
    /\ FAdd(ret[1], ret[2]) # FromInt(Hundred)
    /\ FLess(FAdd(ret[1], ret[2]), FromInt(Hundred))
    /\ ret[3] = FDiv(FromInt(1), FromInt(2))

ExampleKey == [subject |-> "01", session |-> None, task |-> "rest", run |-> "1"]
\* C9 as stated: the record of the run with subject "01", task "rest",
\* run "1" and no session is named "sub-01_task-rest_run-1".
C9_Original ==
    (InCall /\ loc.qc_result # <<>> /\ CurrentKey = ExampleKey) =>
      loc.qc_result[1].img1 = "sub-01_task-rest_run-1"

ExpectedIdentity(key) ==
    "subject-" \o key.subject
    \o (IF key.session # None THEN "_session-" \o key.session ELSE "")
    \o "_task-" \o key.task
    \o (IF key.run # None THEN "_run-" \o key.run ELSE "")
KeyOfMask(path) ==
    CHOOSE e \in {FullKeys[k] : k \in 1 .. Len(FullKeys)} :
        StoreFile(e, FullMaskTail, NiiGz) = path
\* C9 amended: img1 is the underscore-joined list of the tags
\* <entity name>-<value> of the entities present in the run key, in the order
\* subject, session, task, run, with the entity names written in full; the
\* example run is named "subject-01_task-rest_run-1".
C9_Amended ==
    /\ (InCall /\ loc.qc_result # <<>>) =>
         /\ loc.qc_result[1].img1 = ExpectedIdentity(CurrentKey)
         /\ CurrentKey = ExampleKey
              => loc.qc_result[1].img1 = "subject-01_task-rest_run-1"
    /\ script = "full_derivs_check" =>
         \A k \in 1 .. Len(qc_results) :
           qc_results[k].img1 = ExpectedIdentity(KeyOfMask(mni_brain_runs[k].path))

C9_Witness ==
    /\ InCall /\ outcome = "returned" /\ ret # <<>>
    /\ CurrentKey = [subject |-> "02", session |-> "1", task |-> "rest", run |-> None]
    /\ ret[1].img1 = "subject-02_session-1_task-rest"

IsPrefix(a, b) == Len(a) <= Len(b) /\ a = SubSeq(b, 1, Len(a))
SeqToSet(q) == {q[k] : k \in 1 .. Len(q)}
StageOrders ==
    {<<"ResolveInputs", "ApplyTransforms", "ResolveMask", "Measure", "Recorded">>,
     <<"ResolveInputs", "ApplyTransforms", "ResolveMask", "Fallback", "Measure",
       "Recorded">>,
     <<"ResolveInputs", "Skipped">>,
     <<"ResolveInputs", "ApplyTransforms", "Skipped">>}
\* C10: the stages of a run happen in the order resolve inputs, apply
\* transforms, resolve mask, (fallback,) measure, recorded, each at most
\* once; the transform tool runs at most once and only with all three query
\* results at hand, the extraction workflow at most once and only after exit
\* status 0, a record exists only with a mask; a skip is the last stage of
\* its run and leaves no record.
C10_StageOrder ==
    InCall =>
      /\ \E full \in StageOrders : IsPrefix(obs.stages, full)
      /\ obs.ants_calls <= 1 /\ obs.wf_calls <= 1
      /\ obs.ants_calls = 1 =>
           /\ loc.boldref_to_t1w_files # <<>> /\ loc.t1w_to_mni_files # <<>>
           /\ loc.coreg_boldref_files # <<>>
           /\ "ApplyTransforms" \in SeqToSet(obs.stages)
      /\ obs.wf_calls = 1 <=> "ResolveMask" \in SeqToSet(obs.stages)
      /\ obs.wf_calls = 1 =>
           obs.ants_calls = 1 /\ obs.ants_exit = "rc0" /\ loc.ants_success
      /\ loc.qc_result # <<>> <=> "Recorded" \in SeqToSet(obs.stages)
      /\ loc.qc_result # <<>> => loc.mask_target # <<>> /\ obs.wf_calls = 1
      /\ "Skipped" \in SeqToSet(obs.stages) =>
           /\ pc \in {"return", "done"} /\ loc.qc_result = <<>> /\ obs.wf_calls = 0
           /\ obs.stages[Len(obs.stages)] = "Skipped"
           /\ pc = "done" => outcome = "returned" /\ ret = <<>>

C10_Witness ==
    /\ InCall /\ pc = "done" /\ outcome = "returned" /\ ret # <<>>
    /\ obs.stages = <<"ResolveInputs", "ApplyTransforms", "ResolveMask",
                      "Fallback", "Measure", "Recorded">>
    /\ obs.ants_calls = 1 /\ obs.wf_calls = 1
====
